---- MODULE Spec2Model ----
(***************************************************************************)
(* Model of lib/debugger.js (hackchain-debugger): the stepping state       *)
(* machine of Debugger (restart / step / _stepOutput / _stepBoth / finish) *)
(* and the rendering done by update / updateThread.                        *)
(*                                                                         *)
(* The Interpreter and the Disassembler come from hackchain-core and are   *)
(* not part of this repository: every value the debugger reads from them   *)
(* (the results of prerunOneOutput and runOneBoth, the done flag, the      *)
(* program counters, the number of disassembled lines) is a                *)
(* nondeterministic choice.  The flags of threads.output are not kept as   *)
(* state: isDone() is an input of the step that reads it, clearYield() is  *)
(* recorded in the calls of the handler.  The register bar (the loop at    *)
(* debugger.js:163-169) is not modelled.                                   *)
(*                                                                         *)
(* Spec is the debugger driven by the Step and Restart keys; in it the     *)
(* interpreter moves between the snapshots of Snapshots, a sample of the   *)
(* program counters and disassemblies.  SpecView starts from every phase,  *)
(* every height and every snapshot of AllSnapshots and renders once.       *)
(* SpecLayout does the same from memory images made of instructions of 2   *)
(* and 4 bytes, SpecNew runs the constructor on every kind of payload and  *)
(* SpecAddr applies addr to the offsets of AddrInputs.                     *)
(***************************************************************************)
EXTENDS Integers, Sequences, FiniteSets, TLC

\* ---------------------------------------------------------------- bounds
\* Interpreter.maxInitTicks / Interpreter.maxTicks: set by hackchain-core,
\* read at debugger.js:74 and debugger.js:94.  Small values here.
maxInitTicks == 3
maxTicks == 3
\* largest number of list rows (box.height - 1) that is explored
MaxRows == 3
\* largest program counter, in 2-byte words
MaxPcWords == 1

\* largest number of instructions of a memory image of SpecLayout
MaxInsns == 3
\* offsets this close to a power of 16 are handed to addr in SpecAddr
AddrWindow == 12

\* step() calls counted since construction or the last restart()
MaxSteps == maxInitTicks + maxTicks + 1
Heights == 2 .. (MaxRows + 1)
PCs == {2 * w : w \in 0 .. MaxPcWords}
\* ''.split('\n') has one entry: a split never returns an empty list
LineCounts == 1 .. (MaxRows + 1)
Threads == {"output", "input"}
Phases == {"output", "both", "success", "failure"}

\* what update() reads from the interpreter: the program counter of each
\* thread and the number of lines the Disassembler returns for its window
AllSnapshots == [pc : [Threads -> PCs], disasm : [Threads -> LineCounts]]
\* the snapshots the interpreter takes in Spec: both threads alike
Snapshots == {[pc |-> [t \in Threads |-> p],
               disasm |-> [t \in Threads |-> n]] : p \in PCs, n \in LineCounts}

\* memory images: the sizes in bytes of the instructions from offset 0 on
Layouts == UNION {[1 .. k -> {2, 4}] : k \in 1 .. MaxInsns}

\* the offsets formatted in SpecAddr: those around 16^0 .. 16^5, and the
\* three of the examples 0x1, 0xABCD, 0x12345
AddrInputs ==
  {1, 43981, 74565} \cup
  UNION {{i \in (c - AddrWindow) .. (c + AddrWindow) : i >= 0} :
           c \in {1, 16, 256, 4096, 65536, 1048576}}

\* the kinds of value of the fields of the constructor's data argument
HashKinds == {"hex string", "string", "number", "undefined"}
CodeKinds == {"array", "buffer", "string", "undefined"}
Payloads ==
  [object : {TRUE}, hash : HashKinds, output : CodeKinds, input : CodeKinds]
  \cup {[object |-> FALSE, hash |-> "undefined", output |-> "undefined",
          input |-> "undefined"]}
\* the payload of the sessions of Spec, SpecView, SpecLayout and SpecAddr
SessionData ==
  [object |-> TRUE, hash |-> "hex string", output |-> "array",
   input |-> "array"]

VARIABLES
  data,         \* the data argument of the constructor, by kind of value
  constructed,  \* "no" before new Debugger(), then "yes" or "threw"
  layout,       \* the memory image where it is fixed (SpecLayout), or <<>>
  addrIn,       \* the offset handed to addr (SpecAddr)
  addrOut,      \* the characters addr returned, <<>> before the call
  state,        \* this.state: "output" | "both" | "success" | "failure"
  counter,      \* this.counter
  prepared,     \* interpreter: programs loaded since the last clear()
  pc,           \* interpreter.threads[t].pc
  disasm,       \* lines the Disassembler returns for thread t's window
  height,       \* box.height of the two code lists
  items,        \* items[t]: lines handed to the list of thread t
  slices,       \* slices[t]: the arguments of memory.slice for thread t
  selected,     \* selected[t]: row selected in the list of thread t
  bg,           \* codeStyle.selected.bg (one style object, both lists)
  rendered,     \* this.state as seen by the last screen.render()
  calls,        \* operations invoked by the last handler, in order
  writes,       \* values assigned to this.state by the last handler
  doneSeen,     \* isDone() as read by the last handler, or "unread"
  lastOp,       \* the last handler: "new" | "step" | "restart"
  prevOp,       \* the handler before the last
  prevState,    \* this.state before the last handler
  prevCounter,  \* this.counter before the last handler
  steps,        \* step() calls since construction / the last restart()
  restarts,     \* parity of the number of restart() calls so far
  outputResults, \* results of prerunOneOutput since the last restart()
  bothResults   \* results of runOneBoth since the phase became "both"

Range(f) == {f[i] : i \in DOMAIN f}

vars == <<data, constructed, layout, addrIn, addrOut, state, counter, prepared, pc, disasm, height, items, slices,
          selected, bg, rendered, calls, writes, doneSeen, lastOp, prevOp,
          prevState, prevCounter, steps, restarts, outputResults,
          bothResults>>

\* A handler is computed on the session s = [state, counter] and returns the
\* session it leaves, with the operations it invoked (calls) and the values
\* it assigned to this.state (writes), both in program order.

\* ------------------------------------------------------------ finish
\* finish() without `this.counter = 0`
finishKeepCounter(s, result) ==
  [state |-> IF result THEN "success" ELSE "failure",
   counter |-> s.counter,
   calls |-> <<"finish">>,
   writes |-> <<IF result THEN "success" ELSE "failure">>]

finish(s, result) ==
  [state |-> IF result THEN "success" ELSE "failure",
   counter |-> 0,
   calls |-> <<"finish">>,
   writes |-> <<IF result THEN "success" ELSE "failure">>]

\* ------------------------------------------------------- _stepOutput
\* r: result of prerunOneOutput(); d: threads.output.isDone()

\* _stepOutput comparing with `>` instead of `>=`
stepOutputLate(s, r, d) ==
  IF ~r
    THEN LET t == [s EXCEPT !.counter = s.counter + 1]
         IN IF t.counter > maxInitTicks
              THEN LET f == finish(t, FALSE)
                   IN [f EXCEPT !.calls = <<"prerunOneOutput">> \o f.calls]
              ELSE [state |-> t.state, counter |-> t.counter,
                    calls |-> <<"prerunOneOutput">>, writes |-> <<>>]
    ELSE IF d
           THEN LET f == finish(s, TRUE)
                IN [f EXCEPT !.calls = <<"prerunOneOutput", "clearYield",
                                         "isDone">> \o f.calls]
           ELSE [state |-> "both", counter |-> 0,
                 calls |-> <<"prerunOneOutput", "clearYield", "isDone",
                             "prepareInput">>,
                 writes |-> <<"both">>]

\* _stepOutput calling finish(true) without returning
stepOutputFallThrough(s, r, d) ==
  IF ~r
    THEN LET t == [s EXCEPT !.counter = s.counter + 1]
         IN IF t.counter >= maxInitTicks
              THEN LET f == finish(t, FALSE)
                   IN [f EXCEPT !.calls = <<"prerunOneOutput">> \o f.calls]
              ELSE [state |-> t.state, counter |-> t.counter,
                    calls |-> <<"prerunOneOutput">>, writes |-> <<>>]
    ELSE LET f == IF d THEN finish(s, TRUE)
                  ELSE [calls |-> <<>>, writes |-> <<>>]
         IN [state |-> "both", counter |-> 0,
             calls |-> <<"prerunOneOutput", "clearYield", "isDone">>
                       \o f.calls \o <<"prepareInput">>,
             writes |-> f.writes \o <<"both">>]

\* _stepOutput entering 'both' without `this.counter = 0`
stepOutputKeepCounter(s, r, d) ==
  IF ~r
    THEN LET t == [s EXCEPT !.counter = s.counter + 1]
         IN IF t.counter >= maxInitTicks
              THEN LET f == finish(t, FALSE)
                   IN [f EXCEPT !.calls = <<"prerunOneOutput">> \o f.calls]
              ELSE [state |-> t.state, counter |-> t.counter,
                    calls |-> <<"prerunOneOutput">>, writes |-> <<>>]
    ELSE IF d
           THEN LET f == finish(s, TRUE)
                IN [f EXCEPT !.calls = <<"prerunOneOutput", "clearYield",
                                         "isDone">> \o f.calls]
           ELSE [state |-> "both", counter |-> s.counter,
                 calls |-> <<"prerunOneOutput", "clearYield", "isDone",
                             "prepareInput">>,
                 writes |-> <<"both">>]

\* _stepOutput reading isDone() before clearYield()
stepOutputDoneFirst(s, r, d) ==
  IF ~r
    THEN LET t == [s EXCEPT !.counter = s.counter + 1]
         IN IF t.counter >= maxInitTicks
              THEN LET f == finish(t, FALSE)
                   IN [f EXCEPT !.calls = <<"prerunOneOutput">> \o f.calls]
              ELSE [state |-> t.state, counter |-> t.counter,
                    calls |-> <<"prerunOneOutput">>, writes |-> <<>>]
    ELSE IF d
           THEN LET f == finish(s, TRUE)
                IN [f EXCEPT !.calls = <<"prerunOneOutput", "isDone">>
                                       \o f.calls]
           ELSE [state |-> "both", counter |-> 0,
                 calls |-> <<"prerunOneOutput", "isDone", "clearYield",
                             "prepareInput">>,
                 writes |-> <<"both">>]

stepOutput(s, r, d) ==
  IF ~r
    THEN LET t == [s EXCEPT !.counter = s.counter + 1]
         IN IF t.counter >= maxInitTicks
              THEN LET f == finish(t, FALSE)
                   IN [f EXCEPT !.calls = <<"prerunOneOutput">> \o f.calls]
              ELSE [state |-> t.state, counter |-> t.counter,
                    calls |-> <<"prerunOneOutput">>, writes |-> <<>>]
    ELSE IF d
           THEN LET f == finish(s, TRUE)
                IN [f EXCEPT !.calls = <<"prerunOneOutput", "clearYield",
                                         "isDone">> \o f.calls]
           ELSE [state |-> "both", counter |-> 0,
                 calls |-> <<"prerunOneOutput", "clearYield", "isDone",
                             "prepareInput">>,
                 writes |-> <<"both">>]

\* --------------------------------------------------------- _stepBoth
\* r: result of runOneBoth()

\* _stepBoth comparing with `>` instead of `>=`
stepBothLate(s, r) ==
  IF ~r
    THEN LET t == [s EXCEPT !.counter = s.counter + 1]
         IN IF t.counter > maxTicks
              THEN LET f == finish(t, TRUE)
                   IN [f EXCEPT !.calls = <<"runOneBoth">> \o f.calls]
              ELSE [state |-> t.state, counter |-> t.counter,
                    calls |-> <<"runOneBoth">>, writes |-> <<>>]
    ELSE LET f == finish(s, TRUE)
         IN [f EXCEPT !.calls = <<"runOneBoth">> \o f.calls]

\* _stepBoth going back to 'output' when the budget is spent
stepBothRetry(s, r) ==
  IF ~r
    THEN LET t == [s EXCEPT !.counter = s.counter + 1]
         IN IF t.counter >= maxTicks
              THEN [state |-> "output", counter |-> 0,
                    calls |-> <<"runOneBoth">>, writes |-> <<"output">>]
              ELSE [state |-> t.state, counter |-> t.counter,
                    calls |-> <<"runOneBoth">>, writes |-> <<>>]
    ELSE LET f == finish(s, TRUE)
         IN [f EXCEPT !.calls = <<"runOneBoth">> \o f.calls]

\* _stepBoth without `this.counter++`
stepBothNoCount(s, r) ==
  IF ~r
    THEN IF s.counter >= maxTicks
           THEN LET f == finish(s, TRUE)
                IN [f EXCEPT !.calls = <<"runOneBoth">> \o f.calls]
           ELSE [state |-> s.state, counter |-> s.counter,
                 calls |-> <<"runOneBoth">>, writes |-> <<>>]
    ELSE LET f == finish(s, TRUE)
         IN [f EXCEPT !.calls = <<"runOneBoth">> \o f.calls]

\* _stepBoth reporting a spent budget as a failure
stepBothFail(s, r) ==
  IF ~r
    THEN LET t == [s EXCEPT !.counter = s.counter + 1]
         IN IF t.counter >= maxTicks
              THEN LET f == finish(t, FALSE)
                   IN [f EXCEPT !.calls = <<"runOneBoth">> \o f.calls]
              ELSE [state |-> t.state, counter |-> t.counter,
                    calls |-> <<"runOneBoth">>, writes |-> <<>>]
    ELSE LET f == finish(s, TRUE)
         IN [f EXCEPT !.calls = <<"runOneBoth">> \o f.calls]

stepBoth(s, r) ==
  IF ~r
    THEN LET t == [s EXCEPT !.counter = s.counter + 1]
         IN IF t.counter >= maxTicks
              THEN LET f == finish(t, TRUE)
                   IN [f EXCEPT !.calls = <<"runOneBoth">> \o f.calls]
              ELSE [state |-> t.state, counter |-> t.counter,
                    calls |-> <<"runOneBoth">>, writes |-> <<>>]
    ELSE LET f == finish(s, TRUE)
         IN [f EXCEPT !.calls = <<"runOneBoth">> \o f.calls]

\* -------------------------------------------------------------- step
\* the dispatch on this.state and the trailing update(); r is the result of
\* the interpreter operation the branch invokes, d the done flag it reads

\* update() reads this.state when it runs: shown is the state it renders.

\* step() with a plain `else` in place of `else if (this.state === 'both')`
stepSessionElse(s, r, d) ==
  LET b == IF s.state = "output" THEN stepOutput(s, r, d)
           ELSE stepBoth(s, r)
  IN [state |-> b.state, counter |-> b.counter, writes |-> b.writes,
      calls |-> b.calls \o <<"update">>, shown |-> b.state]

\* step() calling update() before the dispatch on this.state
stepSessionRenderFirst(s, r, d) ==
  LET b == IF s.state = "output" THEN stepOutput(s, r, d)
           ELSE IF s.state = "both" THEN stepBoth(s, r)
           ELSE [state |-> s.state, counter |-> s.counter,
                 calls |-> <<>>, writes |-> <<>>]
  IN [state |-> b.state, counter |-> b.counter, writes |-> b.writes,
      calls |-> <<"update">> \o b.calls, shown |-> s.state]

stepSession(s, r, d) ==
  LET b == IF s.state = "output" THEN stepOutput(s, r, d)
           ELSE IF s.state = "both" THEN stepBoth(s, r)
           ELSE [state |-> s.state, counter |-> s.counter,
                 calls |-> <<>>, writes |-> <<>>]
  IN [state |-> b.state, counter |-> b.counter, writes |-> b.writes,
      calls |-> b.calls \o <<"update">>, shown |-> b.state]

\* ----------------------------------------------------------- restart
\* restart() without `this.counter = 0`
restartSessionKeepCounter(s) ==
  [state |-> "output", counter |-> s.counter,
   calls |-> <<"clear", "prepareOutput", "update">>,
   writes |-> <<"output">>, shown |-> "output"]

restartSession(s) ==
  [state |-> "output", counter |-> 0,
   calls |-> <<"clear", "prepareOutput", "update">>,
   writes |-> <<"output">>, shown |-> "output"]

\* ------------------------------------------------------ updateThread
\* lines.unshift('...') while lines.length < box.height - 1
RECURSIVE pad(_, _)
pad(lines, rows) ==
  IF Len(lines) < rows THEN pad(<<"...">> \o lines, rows) ELSE lines

\* the characters of a string, one per element: i.toString(16)
HexDigits == <<"0", "1", "2", "3", "4", "5", "6", "7",
               "8", "9", "a", "b", "c", "d", "e", "f">>

RECURSIVE toString16(_)
toString16(i) ==
  IF i < 16 THEN <<HexDigits[i + 1]>>
  ELSE toString16(i \div 16) \o <<HexDigits[(i % 16) + 1]>>

\* addr without the `r.length === 3` case
addrNoThree(i) ==
  LET r == toString16(i)
  IN IF Len(r) = 1 THEN <<"0", "x", "0", "0", "0">> \o r
     ELSE IF Len(r) = 2 THEN <<"0", "x", "0", "0">> \o r
     ELSE IF Len(r) = 4 THEN <<"0", "x">> \o r
     ELSE <<"0", "x", ".", ".", ".", ".">>

\* the arrow function addr of updateThread
addr(i) ==
  LET r == toString16(i)
  IN IF Len(r) = 1 THEN <<"0", "x", "0", "0", "0">> \o r
     ELSE IF Len(r) = 2 THEN <<"0", "x", "0", "0">> \o r
     ELSE IF Len(r) = 3 THEN <<"0", "x", "0">> \o r
     ELSE IF Len(r) = 4 THEN <<"0", "x">> \o r
     ELSE <<"0", "x", ".", ".", ".", ".">>

\* h: box.height; p: thread.pc; n: lines returned by the Disassembler

\* updateThread splitting box.height instead of box.height - 1
updateThreadFullHeight(h, p, n, st) ==
  LET contextBefore == h \div 2
      contextAfter == h - 1 - contextBefore
      start == p - 2 * contextBefore
      end == p + 2 * contextAfter
      from == IF start < 0 THEN 0 ELSE start
      lines == pad([i \in 1 .. n |-> "insn"], h - 1)
      max(a, b) == IF a > b THEN a ELSE b
  IN [items |-> [k \in 1 .. Len(lines) |->
                   [prefix |-> IF k - 1 = contextBefore THEN "* " ELSE "  ",
                    mem |-> max(0, (start \div 2) + (k - 1)),
                    label |-> addr(max(0, (start \div 2) + (k - 1))),
                    line |-> lines[k]]],
      selected |-> contextBefore,
      slice |-> <<from, end>>,
      bg |-> IF st = "success" THEN "green"
             ELSE IF st = "failure" THEN "red" ELSE "grey"]

\* updateThread passing a negative start on to memory.slice
updateThreadNoClamp(h, p, n, st) ==
  LET contextBefore == (h - 1) \div 2
      contextAfter == h - 1 - contextBefore
      start == p - 2 * contextBefore
      end == p + 2 * contextAfter
      from == start
      lines == pad([i \in 1 .. n |-> "insn"], h - 1)
      max(a, b) == IF a > b THEN a ELSE b
  IN [items |-> [k \in 1 .. Len(lines) |->
                   [prefix |-> IF k - 1 = contextBefore THEN "* " ELSE "  ",
                    mem |-> max(0, (start \div 2) + (k - 1)),
                    label |-> addr(max(0, (start \div 2) + (k - 1))),
                    line |-> lines[k]]],
      selected |-> contextBefore,
      slice |-> <<from, end>>,
      bg |-> IF st = "success" THEN "green"
             ELSE IF st = "failure" THEN "red" ELSE "grey"]

updateThread(h, p, n, st) ==
  LET contextBefore == (h - 1) \div 2
      contextAfter == h - 1 - contextBefore
      start == p - 2 * contextBefore
      end == p + 2 * contextAfter
      from == IF start < 0 THEN 0 ELSE start
      lines == pad([i \in 1 .. n |-> "insn"], h - 1)
      max(a, b) == IF a > b THEN a ELSE b
  IN [items |-> [k \in 1 .. Len(lines) |->
                   [prefix |-> IF k - 1 = contextBefore THEN "* " ELSE "  ",
                    mem |-> max(0, (start \div 2) + (k - 1)),
                    label |-> addr(max(0, (start \div 2) + (k - 1))),
                    line |-> lines[k]]],
      selected |-> contextBefore,
      slice |-> <<from, end>>,
      bg |-> IF st = "success" THEN "green"
             ELSE IF st = "failure" THEN "red" ELSE "grey"]

\* updateThread tabulated over its inputs, so that it is evaluated once for
\* each of them
updateThreadOn ==
  [h \in Heights, p \in PCs, n \in LineCounts, st \in Phases |->
     updateThread(h, p, n, st)]

\* ------------------------------------------------------------ update
\* the two updateThread calls and screen.render(), with the state st, the
\* program counters p and the disassembly d that hold when it is called
update(st, p, d) ==
  LET view == [t \in Threads |-> updateThreadOn[height, p[t], d[t], st]]
  IN /\ items' = [t \in Threads |-> view[t].items]
     /\ slices' = [t \in Threads |-> view[t].slice]
     /\ selected' = [t \in Threads |-> view[t].selected]
     /\ bg' = view["input"].bg
     /\ rendered' = st

History(op) ==
  /\ lastOp' = op
  /\ prevOp' = lastOp
  /\ prevState' = state
  /\ prevCounter' = counter

\* ----------------------------------------------------------- restart
restart ==
  /\ restarts' = 1 - restarts
  /\ LET res == restartSession([state |-> state, counter |-> counter])
     IN /\ state' = res.state
        /\ counter' = res.counter
        /\ calls' = res.calls
        /\ writes' = res.writes
        \* interpreter.clear(); interpreter.prepareOutput(this.data)
        /\ prepared' = {"output"}
        /\ \E v \in Snapshots :
             /\ pc' = v.pc
             /\ disasm' = v.disasm
             /\ update(res.shown, v.pc, v.disasm)
  /\ doneSeen' = "unread"
  /\ History("restart")
  /\ steps' = 0
  /\ outputResults' = <<>>
  /\ bothResults' = <<>>
  /\ UNCHANGED <<height, data, constructed, layout, addrIn, addrOut>>

\* -------------------------------------------------------------- step
\* the session, the calls and the interpreter's loaded programs after a
\* step() that computed res and whose isDone(), if called, returned d
Stepped(res, d) ==
  /\ state' = res.state
  /\ counter' = res.counter
  /\ calls' = res.calls
  /\ writes' = res.writes
  /\ prepared' = IF "prepareInput" \in Range(res.calls)
                   THEN prepared \cup {"input"} ELSE prepared
  /\ doneSeen' = IF "isDone" \in Range(res.calls)
                   THEN (IF d THEN "done" ELSE "running")
                   ELSE "unread"

\* step() with this.state === 'output'
stepInOutput ==
  /\ state = "output"
  /\ steps < MaxSteps
  /\ \E r \in BOOLEAN, d \in BOOLEAN, v \in Snapshots :
       LET res == stepSession([state |-> state, counter |-> counter], r, d)
       IN /\ r \/ ~d       \* isDone() is read only when r holds
          /\ Stepped(res, d)
          /\ pc' = v.pc
          /\ disasm' = v.disasm
          /\ update(res.shown, v.pc, v.disasm)
          /\ outputResults' = Append(outputResults, r)
  /\ History("step")
  /\ steps' = steps + 1
  /\ UNCHANGED <<height, restarts, bothResults>>
  /\ UNCHANGED <<data, constructed, layout, addrIn, addrOut>>

\* step() with this.state === 'both'
stepInBoth ==
  /\ state = "both"
  /\ steps < MaxSteps
  /\ \E r \in BOOLEAN, v \in Snapshots :
       LET res == stepSession([state |-> state, counter |-> counter], r, FALSE)
       IN /\ Stepped(res, FALSE)
          /\ pc' = v.pc
          /\ disasm' = v.disasm
          /\ update(res.shown, v.pc, v.disasm)
          /\ bothResults' = Append(bothResults, r)
  /\ History("step")
  /\ steps' = steps + 1
  /\ UNCHANGED <<height, restarts, outputResults>>
  /\ UNCHANGED <<data, constructed, layout, addrIn, addrOut>>

\* step() with any other this.state: the empty else branch, then update()
stepFinished ==
  /\ state \notin {"output", "both"}
  /\ steps < MaxSteps
  /\ LET res == stepSession([state |-> state, counter |-> counter],
                            FALSE, FALSE)
     IN /\ Stepped(res, FALSE)
        /\ update(res.shown, pc, disasm)
  /\ History("step")
  /\ steps' = steps + 1
  /\ UNCHANGED <<pc, disasm, height, restarts, outputResults, bothResults>>
  /\ UNCHANGED <<data, constructed, layout, addrIn, addrOut>>

\* ------------------------------------------------------- constructor
Init ==
  /\ data = SessionData
  /\ constructed = "yes"
  /\ layout = <<>>
  /\ addrIn = 0
  /\ addrOut = <<>>
  /\ state = "output"
  /\ counter = 0
  /\ prepared = {}
  /\ \E v \in Snapshots : pc = v.pc /\ disasm = v.disasm
  /\ height \in Heights
  /\ items = [t \in Threads |-> <<>>]
  /\ slices = [t \in Threads |-> <<>>]
  /\ selected = [t \in Threads |-> 0]
  /\ bg = "blue"
  /\ rendered = "none"
  /\ calls = <<>>
  /\ writes = <<"output">>
  /\ doneSeen = "unread"
  /\ lastOp = "new"
  /\ prevOp = "new"
  /\ prevState = "output"
  /\ prevCounter = 0
  /\ steps = 0
  /\ restarts = 0
  /\ outputResults = <<>>
  /\ bothResults = <<>>

Next == stepInOutput \/ stepInBoth \/ stepFinished \/ restart

Spec == Init /\ [][Next]_vars

\* ------------------------------------------------------------ SpecView
\* update() called once in any phase, at any height, on any snapshot
InitView ==
  /\ data = SessionData
  /\ constructed = "yes"
  /\ layout = <<>>
  /\ addrIn = 0
  /\ addrOut = <<>>
  /\ state \in Phases
  /\ counter = 0
  /\ prepared = {}
  /\ \E v \in AllSnapshots : pc = v.pc /\ disasm = v.disasm
  /\ height \in Heights
  /\ items = [t \in Threads |-> <<>>]
  /\ slices = [t \in Threads |-> <<>>]
  /\ selected = [t \in Threads |-> 0]
  /\ bg = "blue"
  /\ rendered = "none"
  /\ calls = <<>>
  /\ writes = <<>>
  /\ doneSeen = "unread"
  /\ lastOp = "new"
  /\ prevOp = "new"
  /\ prevState = state
  /\ prevCounter = 0
  /\ steps = 0
  /\ restarts = 0
  /\ outputResults = <<>>
  /\ bothResults = <<>>

render ==
  /\ rendered = "none"
  /\ update(state, pc, disasm)
  /\ calls' = <<"update">>
  /\ UNCHANGED <<state, counter, prepared, pc, disasm, height, writes,
                 doneSeen, lastOp, prevOp, prevState, prevCounter, steps,
                 restarts, outputResults, bothResults>>
  /\ UNCHANGED <<data, constructed, layout, addrIn, addrOut>>

NextView == render

SpecView == InitView /\ [][NextView]_vars

\* ---------------------------------------------------------- SpecLayout
\* The Disassembler on a memory image of whole instructions, one line for
\* each: the offset of the first byte after the first k instructions, the
\* offsets at which an instruction begins, and those among them that lie
\* in the slice w = <<from, end>> handed to it.
RECURSIVE Offset(_, _)
Offset(l, k) == IF k = 0 THEN 0 ELSE Offset(l, k - 1) + l[k]
InsnStarts(l) == {Offset(l, k - 1) : k \in 1 .. Len(l)}
Decoded(l, w) == {a \in InsnStarts(l) : w[1] <= a /\ a < w[2]}
\* the slice lies in the memory image and cuts no instruction in two
Whole(l, w) ==
  /\ w[1] \in InsnStarts(l)
  /\ w[2] \in InsnStarts(l) \cup {Offset(l, Len(l))}

\* update() called once in any phase, at any height, on a memory image of
\* instructions of 2 and 4 bytes that holds the window of each thread, with
\* each program counter at the beginning of an instruction
InitLayout ==
  /\ data = SessionData
  /\ constructed = "yes"
  /\ layout \in Layouts
  /\ addrIn = 0
  /\ addrOut = <<>>
  /\ state \in Phases
  /\ counter = 0
  /\ prepared = {}
  /\ height \in Heights
  /\ pc \in [Threads -> PCs \cap InsnStarts(layout)]
  /\ \A t \in Threads :
       Whole(layout, updateThreadOn[height, pc[t], 1, state].slice)
  /\ disasm = [t \in Threads |->
       Cardinality(Decoded(layout,
                           updateThreadOn[height, pc[t], 1, state].slice))]
  /\ items = [t \in Threads |-> <<>>]
  /\ slices = [t \in Threads |-> <<>>]
  /\ selected = [t \in Threads |-> 0]
  /\ bg = "blue"
  /\ rendered = "none"
  /\ calls = <<>>
  /\ writes = <<>>
  /\ doneSeen = "unread"
  /\ lastOp = "new"
  /\ prevOp = "new"
  /\ prevState = state
  /\ prevCounter = 0
  /\ steps = 0
  /\ restarts = 0
  /\ outputResults = <<>>
  /\ bothResults = <<>>

SpecLayout == InitLayout /\ [][NextView]_vars

\* ------------------------------------------------------------ SpecAddr
\* addr applied once to an offset of AddrInputs
InitAddr ==
  /\ data = SessionData
  /\ constructed = "yes"
  /\ layout = <<>>
  /\ addrIn \in AddrInputs
  /\ addrOut = <<>>
  /\ state = "output"
  /\ counter = 0
  /\ prepared = {}
  /\ pc = [t \in Threads |-> 0]
  /\ disasm = [t \in Threads |-> 1]
  /\ height = 2
  /\ items = [t \in Threads |-> <<>>]
  /\ slices = [t \in Threads |-> <<>>]
  /\ selected = [t \in Threads |-> 0]
  /\ bg = "blue"
  /\ rendered = "none"
  /\ calls = <<>>
  /\ writes = <<"output">>
  /\ doneSeen = "unread"
  /\ lastOp = "new"
  /\ prevOp = "new"
  /\ prevState = "output"
  /\ prevCounter = 0
  /\ steps = 0
  /\ restarts = 0
  /\ outputResults = <<>>
  /\ bothResults = <<>>

format ==
  /\ addrOut = <<>>
  /\ addrOut' = addr(addrIn)
  /\ UNCHANGED <<data, constructed, layout, addrIn, state, counter, prepared,
                 pc, disasm, height, items, slices, selected, bg, rendered,
                 calls, writes, doneSeen, lastOp, prevOp, prevState,
                 prevCounter, steps, restarts, outputResults, bothResults>>

NextAddr == format

SpecAddr == InitAddr /\ [][NextAddr]_vars

\* ------------------------------------------------------------- SpecNew
\* validate: the four assertions of the constructor

\* the constructor without the assertion on data.input
validateNoInput(d) ==
  /\ d.object
  /\ d.hash \in {"hex string", "string"}
  /\ d.output \in {"array", "buffer"}

validate(d) ==
  /\ d.object
  /\ d.hash \in {"hex string", "string"}       \* typeof data.hash === 'string'
  /\ d.output \in {"array", "buffer"}
  /\ d.input \in {"array", "buffer"}

\* new Debugger(title, data) on every kind of payload
InitNew ==
  /\ data \in Payloads
  /\ constructed = "no"
  /\ layout = <<>>
  /\ addrIn = 0
  /\ addrOut = <<>>
  /\ state = "none"
  /\ counter = 0
  /\ prepared = {}
  /\ pc = [t \in Threads |-> 0]
  /\ disasm = [t \in Threads |-> 1]
  /\ height = 2
  /\ items = [t \in Threads |-> <<>>]
  /\ slices = [t \in Threads |-> <<>>]
  /\ selected = [t \in Threads |-> 0]
  /\ bg = "blue"
  /\ rendered = "none"
  /\ calls = <<>>
  /\ writes = <<>>
  /\ doneSeen = "unread"
  /\ lastOp = "new"
  /\ prevOp = "new"
  /\ prevState = "none"
  /\ prevCounter = 0
  /\ steps = 0
  /\ restarts = 0
  /\ outputResults = <<>>
  /\ bothResults = <<>>

\* the constructor: the assertions, Script.compileTextArray for a program
\* given as an array (hackchain-core: it returns or throws), then the
\* assignments of this.state and this.counter
new ==
  /\ constructed = "no"
  /\ \E compiles \in BOOLEAN :
       LET compiled == compiles \/ "array" \notin {data.output, data.input}
       IN IF validate(data) /\ compiled
            THEN /\ constructed' = "yes"
                 /\ state' = "output"
                 /\ counter' = 0
                 /\ writes' = <<"output">>
            ELSE /\ constructed' = "threw"
                 /\ UNCHANGED <<state, counter, writes>>
  /\ UNCHANGED <<data, layout, addrIn, addrOut, prepared, pc, disasm, height,
                 items, slices, selected, bg, rendered, calls, doneSeen,
                 lastOp, prevOp, prevState, prevCounter, steps, restarts,
                 outputResults, bothResults>>

NextNew == new

SpecNew == InitNew /\ [][NextNew]_vars

\* =================================================================== claims
AllFalse(rs) == \A i \in 1 .. Len(rs) : ~rs[i]
Last(rs) == rs[Len(rs)]
Count(x, q) == Cardinality({i \in 1 .. Len(q) : q[i] = x})
Terminal == {"success", "failure"}
Rank(st) == IF st = "output" THEN 0 ELSE IF st = "both" THEN 1 ELSE 2
stepTaken == steps' = steps + 1
restartTaken == restarts' # restarts

\* C1: from 'output' with counter 0, as long as every prerunOneOutput() has
\* returned false and there was no restart since, the state is 'output'
\* after each of the first maxInitTicks - 1 steps and 'failure' from the
\* maxInitTicks-th step on.
C1_BootstrapTimeout ==
  AllFalse(outputResults) =>
    IF steps < maxInitTicks
      THEN state = "output" /\ counter = steps
      ELSE state = "failure" /\ Len(outputResults) = maxInitTicks

C1_Witness ==
  /\ lastOp = "step"
  /\ steps = maxInitTicks
  /\ AllFalse(outputResults)
  /\ prevState = "output"
  /\ state = "failure"

\* C2: in 'both', entered with counter 0: while runOneBoth() has returned
\* false fewer than maxTicks times the state stays 'both'; the state is
\* 'success' at the maxTicks-th false result, or at the first true result,
\* and runOneBoth() is not called again.
C2_JointBudget ==
  LET k == Len(bothResults)
  IN /\ k <= maxTicks
     /\ \A i \in 1 .. k - 1 : ~bothResults[i]
     /\ (k > 0 /\ (bothResults[k] \/ k = maxTicks)) => state = "success"
     /\ ("input" \in prepared /\ k < maxTicks /\ AllFalse(bothResults))
          => state = "both" /\ counter = k

C2_Witness ==
  /\ lastOp = "step"
  /\ prevState = "both"
  /\ state = "success"
  /\ Len(bothResults) = maxTicks
  /\ AllFalse(bothResults)

\* C3: a step in 'output' whose prerunOneOutput() returned true and whose
\* isDone() returned true leaves the state 'success'; 'both' is never
\* assigned, prepareInput() is not called and runOneBoth() has not run.
C3_DoneDuringBootstrap ==
  (lastOp = "step" /\ prevState = "output" /\ doneSeen = "done") =>
    /\ Last(outputResults)
    /\ state = "success"
    /\ writes = <<"success">>
    /\ "prepareInput" \notin Range(calls)
    /\ "runOneBoth" \notin Range(calls)
    /\ "input" \notin prepared
    /\ bothResults = <<>>

C3_Witness ==
  /\ lastOp = "step"
  /\ prevState = "output"
  /\ doneSeen = "done"
  /\ state = "success"

\* C4: a step in 'output' whose prerunOneOutput() returned true and whose
\* isDone() returned false leaves the state 'both' and the counter 0, and
\* has called prepareInput() exactly once.
C4_EnterJoint ==
  (lastOp = "step" /\ prevState = "output" /\ doneSeen = "running") =>
    /\ Last(outputResults)
    /\ state = "both"
    /\ counter = 0
    /\ Count("prepareInput", calls) = 1
    /\ "input" \in prepared

C4_Witness ==
  /\ lastOp = "step"
  /\ prevState = "output"
  /\ doneSeen = "running"
  /\ prevCounter > 0
  /\ state = "both"

\* C5: every restart() leaves state 'output', counter 0 and an interpreter
\* cleared and loaded with the output program only; a restart() that
\* follows a restart() changes none of them.
C5_Restart ==
  [][restartTaken =>
       /\ state' = "output"
       /\ counter' = 0
       /\ prepared' = {"output"}
       /\ calls' = <<"clear", "prepareOutput", "update">>
       /\ rendered' = "output"
       /\ lastOp = "restart" =>
            UNCHANGED <<state, counter, prepared, calls, rendered, bg,
                        steps, outputResults, bothResults>>]_vars

C5_Witness ==
  /\ lastOp = "restart"
  /\ prevOp = "restart"
  /\ prevState = "output"
  /\ prevCounter = 0
  /\ state = "output"
  /\ counter = 0

\* C6: a step() taken in 'success' or 'failure' changes neither the state
\* nor the counter and calls nothing on the interpreter.
C6_TerminalStepNoop ==
  [][(stepTaken /\ state \in Terminal) =>
       /\ UNCHANGED <<state, counter, prepared, outputResults, bothResults>>
       /\ calls' = <<"update">>
       /\ writes' = <<>>]_vars

C6_Witness ==
  /\ lastOp = "step"
  /\ prevOp = "step"
  /\ prevState = "failure"
  /\ state = "failure"
  /\ steps > maxInitTicks + 1

\* C7: a step() changes the state only forward in the order 'output',
\* 'both', {'success', 'failure'}; every other change of state is a
\* restart(), to 'output'.
C7_Monotonic ==
  [][state' # state =>
       \/ stepTaken /\ ~restartTaken /\ Rank(state) < Rank(state')
       \/ restartTaken /\ ~stepTaken /\ state' = "output"]_vars

C7_Witness ==
  /\ lastOp = "restart"
  /\ prevState = "success"
  /\ state = "output"
  /\ bothResults = <<>>

\* C8: whenever a step() or restart() changes the state, it leaves the
\* counter 0.
C8_CounterResetOnPhaseChange ==
  (lastOp \in {"step", "restart"} /\ prevState # state) => counter = 0

C8_Witness ==
  /\ lastOp = "step"
  /\ prevState = "both"
  /\ state = "success"
  /\ prevCounter > 0
  /\ counter = 0

\* C9: after maxInitTicks + maxTicks steps without a restart the state is
\* 'success' or 'failure', whatever the interpreter returned.
C9_Terminates ==
  steps >= maxInitTicks + maxTicks => state \in Terminal

C9_Witness ==
  /\ lastOp = "step"
  /\ steps = maxInitTicks + maxTicks
  /\ prevState = "both"
  /\ prevCounter = maxTicks - 1
  /\ state = "success"

\* C10: after a render, the list of each thread holds exactly box.height - 1
\* lines, whatever the number of lines the Disassembler returned.
C10_ExactlyRowCount ==
  rendered # "none" => \A t \in Threads : Len(items[t]) = height - 1

\* C11: after a render the selected row of each list is
\* floor(rowCount / 2), rowCount = box.height - 1, the slice ends
\* 2 * (rowCount - floor(rowCount / 2)) bytes after the program counter,
\* the selected row is a row of the list, it carries "* " and every other
\* row carries "  ".
C11_SelectedRow ==
  rendered # "none" =>
    \A t \in Threads :
      LET rowCount == height - 1
          before == rowCount \div 2
      IN /\ selected[t] = before
         /\ slices[t][2] = pc[t] + 2 * (rowCount - before)
         /\ selected[t] >= 0 /\ selected[t] < Len(items[t])
         /\ \A k \in 1 .. Len(items[t]) :
              items[t][k].prefix = IF k - 1 = selected[t] THEN "* " ELSE "  "

C11_Witness ==
  /\ rendered # "none"
  /\ height = 4
  /\ selected["output"] = 1
  /\ Len(items["output"]) = 3
  /\ items["output"][2].prefix = "* "

\* C17: the slice read for a thread begins at max(0, pc - 2 * before), ends
\* at pc + 2 * after and spans at most 2 * rowCount bytes.
C17_SliceClamped ==
  rendered # "none" =>
    \A t \in Threads :
      LET rowCount == height - 1
          before == rowCount \div 2
          start == pc[t] - 2 * before
          end == pc[t] + 2 * (rowCount - before)
      IN /\ slices[t] = <<IF start < 0 THEN 0 ELSE start, end>>
         /\ slices[t][1] >= 0
         /\ slices[t][2] - slices[t][1] <= 2 * rowCount

C17_Witness ==
  /\ rendered # "none"
  /\ height = 3
  /\ pc["input"] = 0
  /\ slices["input"] = <<0, 2>>

Index(x, q) == CHOOSE i \in 1 .. Len(q) : q[i] = x
Colour(st) == IF st = "success" THEN "green"
              ELSE IF st = "failure" THEN "red" ELSE "grey"

\* C14: every step() and restart() calls update() exactly once, as its last
\* operation; the state it renders, and the colour it sets, are those of
\* the state the handler leaves.
C14_RenderAfterChanges ==
  lastOp \in {"step", "restart"} =>
    /\ Count("update", calls) = 1
    /\ Last(calls) = "update"
    /\ rendered = state
    /\ bg = Colour(state)

C14_Witness ==
  /\ lastOp = "step"
  /\ prevState = "output"
  /\ state = "failure"
  /\ rendered = "failure"
  /\ bg = "red"

\* C16: a step() taken in 'output' calls prerunOneOutput() once and
\* runOneBoth() never, a step() taken in 'both' calls runOneBoth() once and
\* prerunOneOutput() never; when prerunOneOutput() returned true,
\* clearYield() is called once, before the one call of isDone().
C16_OneTickPerStep ==
  lastOp = "step" =>
    /\ prevState = "output" =>
         /\ Count("prerunOneOutput", calls) = 1
         /\ Count("runOneBoth", calls) = 0
         /\ IF Last(outputResults)
              THEN /\ Count("clearYield", calls) = 1
                   /\ Count("isDone", calls) = 1
                   /\ Index("clearYield", calls) < Index("isDone", calls)
              ELSE /\ Count("clearYield", calls) = 0
                   /\ Count("isDone", calls) = 0
    /\ prevState = "both" =>
         /\ Count("runOneBoth", calls) = 1
         /\ Count("prerunOneOutput", calls) = 0
    /\ prevState \in Terminal =>
         /\ Count("runOneBoth", calls) = 0
         /\ Count("prerunOneOutput", calls) = 0

C16_Witness ==
  /\ lastOp = "step"
  /\ prevState = "output"
  /\ state = "both"
  /\ Last(outputResults)
  /\ calls = <<"prerunOneOutput", "clearYield", "isDone", "prepareInput",
               "update">>

\* C18: the counter is in 0 .. maxInitTicks - 1 in 'output', in
\* 0 .. maxTicks - 1 in 'both' and 0 in 'success' and 'failure'.
C18_CounterRange ==
  /\ state = "output" => counter \in 0 .. maxInitTicks - 1
  /\ state = "both" => counter \in 0 .. maxTicks - 1
  /\ state \in Terminal => counter = 0

C18_Witness ==
  /\ state = "both"
  /\ counter = maxTicks - 1
  /\ lastOp = "step"

\* C19: the state becomes 'failure' only by a step() taken in 'output'
\* whose prerunOneOutput() returned false and raised the counter to
\* maxInitTicks; a step() taken in 'both' never leaves 'failure'.
C19_FailureOnlyByTimeout ==
  [][(state' = "failure" /\ state # "failure") =>
       /\ stepTaken
       /\ state = "output"
       /\ counter + 1 = maxInitTicks
       /\ Len(outputResults') = Len(outputResults) + 1
       /\ ~Last(outputResults')]_vars

C19_Witness ==
  /\ lastOp = "step"
  /\ prevState = "output"
  /\ prevCounter = maxInitTicks - 1
  /\ ~Last(outputResults)
  /\ bothResults = <<>>
  /\ state = "failure"

\* C20: every prerunOneOutput() is called with the output program loaded
\* since the last clear(), every runOneBoth() with the output and the input
\* program loaded.
C20_ProgramsLoaded ==
  [][/\ (stepTaken /\ state = "output") => "output" \in prepared
     /\ (stepTaken /\ state = "both") => {"output", "input"} \subseteq prepared
    ]_vars

HexValue(c) == CHOOSE v \in 0 .. 15 : HexDigits[v + 1] = c
Overflow == <<"0", "x", ".", ".", ".", ".">>

\* C13: for an offset in 0 .. 0xFFFF addr returns "0x" and exactly four
\* lowercase hexadecimal digits whose value is the offset; for a larger
\* offset it returns "0x....".
C13_AddressFormat ==
  addrOut # <<>> =>
    IF addrIn <= 65535
      THEN /\ Len(addrOut) = 6
           /\ addrOut[1] = "0" /\ addrOut[2] = "x"
           /\ \A i \in 3 .. 6 : addrOut[i] \in Range(HexDigits)
           /\ 4096 * HexValue(addrOut[3]) + 256 * HexValue(addrOut[4])
                + 16 * HexValue(addrOut[5]) + HexValue(addrOut[6]) = addrIn
      ELSE addrOut = Overflow

C13_Witness ==
  /\ addrIn = 43981
  /\ addrOut = <<"0", "x", "a", "b", "c", "d">>

CodeGiven(k) == k \in {"array", "buffer"}

\* C15 as stated: the constructor throws, and creates no session, whenever
\* hash is not a hex string or output or input is neither an array nor a
\* Buffer; a session that is constructed is in 'output' with counter 0.
C15_HexValidated ==
  /\ constructed = "yes" =>
       /\ data.hash = "hex string"
       /\ CodeGiven(data.output) /\ CodeGiven(data.input)
       /\ state = "output" /\ counter = 0
  /\ constructed = "threw" => state = "none"

\* C15 amended: the constructor throws, and creates no session, whenever
\* data is not an object, hash is not a string (hexadecimal or not) or
\* output or input is neither an array nor a Buffer; a session that is
\* constructed is in 'output' with counter 0.
C15_StringValidated ==
  /\ constructed = "yes" =>
       /\ data.object
       /\ data.hash \in {"hex string", "string"}
       /\ CodeGiven(data.output) /\ CodeGiven(data.input)
       /\ state = "output" /\ counter = 0
  /\ constructed = "threw" => state = "none"

C15_Witness ==
  /\ constructed = "threw"
  /\ data.object
  /\ data.hash = "hex string"
  /\ data.output = "buffer"
  /\ data.input = "string"
  /\ state = "none"

\* C12: after a render on a memory image of whole instructions, the row
\* selected and marked "* " in the list of a thread is the line decoded
\* from the instruction that begins at the thread's program counter.
C12_SelectedRowIsPc ==
  (rendered # "none" /\ layout # <<>>) =>
    \A t \in Threads :
      LET decoded == Decoded(layout, slices[t])
          padding == Len(items[t]) - disasm[t]
          row == selected[t] - padding
      IN /\ row \in 0 .. disasm[t] - 1
         /\ Cardinality({a \in decoded : a < pc[t]}) = row
         /\ items[t][selected[t] + 1].prefix = "* "

====
